---- MODULE Spec2Model ----
(***************************************************************************)
(* Model of the health-check engine of pkg/healthcheck: the Category /     *)
(* Checker data model, HealthChecker.RunChecks with its fatal / warning    *)
(* policy, the per-check retry loop HealthChecker.runCheck, the state the   *)
(* probes share, the context a probe is handed, the error types, and       *)
(* SimpleReporter: Observer, Replay, ToJSON, Print, Successful, HasWarning.*)
(*                                                                         *)
(* Time is counted in ticks; the default retry window is one tick and the  *)
(* default timeout of an attempt six.                                      *)
(* The zero time.Time is tick 0; the wall clock is always past it.         *)
(* Strings are sequences of tokens, so that concatenation is \o.           *)
(***************************************************************************)
EXTENDS Integers, Sequences, FiniteSets, TLC

\* ------------------------------------------------------------------------
\* Bounds of the model
\* ------------------------------------------------------------------------
MaxDeadline == 2        \* longest retry period of a checker, in ticks
MaxOversleep == 1       \* ticks between two attempts beyond the retry window
MaxRetryPeriod == 4     \* longest retry period of a checker whose retries are counted
MaxWindow == 2          \* longest retry window DefaultRetryWindow is set to, in ticks
MaxRuns == 2            \* most RunChecks calls made on one engine

\* ------------------------------------------------------------------------
\* Program constants
\* ------------------------------------------------------------------------
\* 5 * time.Second, one tick
DefaultRetryWindow == 1
\* 30 * time.Second
DefaultTimeOut == 6 * DefaultRetryWindow

\* the zero value of time.Time (RetryDeadline left unset)
ZeroTime == 0
\* the wall clock when the engine is constructed
StartTime == ZeroTime + 1

VARIABLES
    Categories,   \* hc.Categories: the registered categories, in order
    retryWindow,  \* the package variable DefaultRetryWindow
    now,          \* the wall clock, time.Now()
    pc,           \* position of the caller: "idle", "attempt", "sleep", "done", "panic"
    ci,           \* RunChecks: index of the category being walked
    ki,           \* RunChecks: index of the checker being run in that category
    success,      \* RunChecks: local success
    warning,      \* RunChecks: local warning
    results,      \* the CheckResults the observer has received, in order
    state,        \* hc.state.Data: the map the probes share
    replay,       \* what SimpleReporter.Replay returned and handed to its observer
    registered,   \* history: the category IDs in the order they were registered
    trace,        \* history: probe invocations, observer calls and sleeps, in order
    config,       \* the config argument NewHealthChecker was called with
    hc,           \* what NewHealthChecker returned
    runs,         \* the number of RunChecks calls made on the engine
    cr,           \* the fields success and warning of the SimpleReporter
    report        \* what the method last called on the SimpleReporter returned

vars ==
    <<Categories, retryWindow, now, pc, ci, ki, success, warning, results, state, replay,
      registered, trace, config, hc, runs, cr, report>>

\* ------------------------------------------------------------------------
\* Errors (the error taxonomy types) and probe outcomes
\* ------------------------------------------------------------------------
Nil == [type |-> "nil"]
SkipError == [type |-> "SkipError"]
VerboseSuccess == [type |-> "VerboseSuccess", Message |-> <<"Hello">>]
PlainError == [type |-> "error"]
WaitingError == [type |-> "waiting for check to complete"]
CategoryError(id, err) == [type |-> "CategoryError", Category |-> id, Err |-> err]

\* what a probe (Checker.Check) may return
Outcomes == {Nil, SkipError, VerboseSuccess, PlainError}

\* errors.As(err, &SkipError{}) / errors.As(err, &VerboseSuccess{})
AsSkipError(err) == err.type = "SkipError"

\* faulty variant: VerboseSuccess is not told from a failure
AsVerboseSuccess_Never(err) == FALSE

AsVerboseSuccess(err) == err.type = "VerboseSuccess"

\* errors.As(err, &CategoryError{}): the first CategoryError on the chain of
\* err, Nil when there is none; no error type of the package has an Unwrap
\* method, so the chain is err alone
AsCategoryError(err) == IF err.type = "CategoryError" THEN err ELSE Nil

\* IsCategoryError(err, categoryID)
IsCategoryError(err, categoryID) ==
    LET ce == AsCategoryError(err)
    IN  IF ce # Nil THEN ce.Category = categoryID ELSE FALSE

\* time.Time.Before
Before(t, u) == t < u

\* ------------------------------------------------------------------------
\* HealthCheckState: the data the probes pass to one another
\* ------------------------------------------------------------------------
Keys == {"one"}
Values == {"two", "three"}

\* make(map[string]any)
EmptyData == [k \in {} |-> "two"]

\* what a probe does to the map it is handed: nothing, or state.Data[key] = val
NoWrite == [key |-> "", val |-> ""]
Put(k, v) == [key |-> k, val |-> v]
NoWrites == {NoWrite}
Writes == NoWrites \cup {Put(k, v) : k \in Keys, v \in Values}

\* faulty variant: the probe is handed a copy of the map, its write is lost
DataAfter_Lost(data, put) == data

\* the map after a probe did put to it
DataAfter(data, put) ==
    IF put = NoWrite THEN data
    ELSE [k \in DOMAIN data \cup {put.key} |-> IF k = put.key THEN put.val ELSE data[k]]

\* ------------------------------------------------------------------------
\* Configuration: checkers and categories
\* ------------------------------------------------------------------------
\* A checker. HasCheck tells that Check is not nil. A retry deadline is either
\* left unset or lies MaxDeadline ticks after the engine's construction; only
\* a checker with a probe and a deadline sets SurfaceErrorOnRetry. Description
\* and HintAnchor are given when the checker is put into a category.
Checker(fatal, warn, hasCheck, deadline, surface) ==
    [Description |-> <<"Checker ">>,
     HintAnchor |-> <<"check">>,
     Fatal |-> fatal,
     Warning |-> warn,
     RetryDeadline |-> deadline,
     SurfaceErrorOnRetry |-> surface,
     HasCheck |-> hasCheck]

RetryDeadlines == {StartTime + MaxDeadline}

Checkers ==
    {Checker(f, w, FALSE, ZeroTime, FALSE) : f \in BOOLEAN, w \in BOOLEAN}
    \cup {Checker(f, w, TRUE, ZeroTime, FALSE) : f \in BOOLEAN, w \in BOOLEAN}
    \cup {Checker(f, w, TRUE, d, s) :
            f \in BOOLEAN, w \in BOOLEAN, d \in RetryDeadlines, s \in BOOLEAN}

\* the checkers of one engine, over all its categories: none, one, or a pair
CheckerLists ==
    {<<>>} \cup {<<a>> : a \in Checkers} \cup {<<a, b>> : a \in Checkers, b \in Checkers}

\* the numbers of checkers one engine may hold
Sizes == {Len(l) : l \in CheckerLists}

\* the category IDs in use: an engine holds at most as many categories as checkers
CategoryIDs == {n \in Sizes : n > 0}

\* an ID that no category has
NoCategory == 0

\* what a probe that wraps its errors itself may return besides
WrappedErrors == {CategoryError(id, PlainError) : id \in CategoryIDs \cup {NoCategory}}

\* context.Context: whether it has been cancelled, and its deadline if it has one
Background == [cancelled |-> FALSE, hasDeadline |-> FALSE, deadline |-> ZeroTime]
Cancelled == [cancelled |-> TRUE, hasDeadline |-> FALSE, deadline |-> ZeroTime]
WithDeadline(d) == [cancelled |-> FALSE, hasDeadline |-> TRUE, deadline |-> d]

\* ctx.Err() != nil at time t
ContextDone(ctx, t) == ctx.cancelled \/ (ctx.hasDeadline /\ ctx.deadline <= t)

\* context.WithTimeout(parent, timeout) called at time t
WithTimeout(parent, t, timeout) ==
    [cancelled |-> ContextDone(parent, t),
     hasDeadline |-> TRUE,
     deadline |-> IF parent.hasDeadline /\ parent.deadline < t + timeout
                  THEN parent.deadline ELSE t + timeout]

\* the contexts a category is given: the background context, a cancelled one,
\* and one with a deadline up to MaxDeadline ticks after the start
CategoryContexts ==
    {Background, Cancelled} \cup {WithDeadline(StartTime + d) : d \in 0..MaxDeadline}

\* NewCategory(id, checkers, enabled, hintBaseURL): the category has the
\* background context
NewCategory(id, checkers, enabled, hintBaseURL) ==
    [ID |-> id, Checkers |-> checkers, Enabled |-> enabled, HintBaseURL |-> hintBaseURL,
     Context |-> Background]

RECURSIVE TotalCheckers(_)
TotalCheckers(cats) ==
    IF cats = <<>> THEN 0 ELSE Len(Head(cats).Checkers) + TotalCheckers(Tail(cats))

\* the ways to cut n checkers into categories of at least one checker each: the
\* sizes of the categories, in order
RECURSIVE Shapes(_)
Shapes(n) ==
    IF n = 0 THEN {<<>>}
    ELSE UNION {{<<m>> \o rest : rest \in Shapes(n - m)} : m \in 1..n}

RECURSIVE Sum(_, _)
Sum(shape, i) == IF i = 0 THEN 0 ELSE shape[i] + Sum(shape, i - 1)

\* the checkers of category id, each with a Description and a HintAnchor of its
\* own: "Checker 11", "check11", "Checker 12", "check12", ...
Described(checkers, id) ==
    [k \in 1..Len(checkers) |->
        [checkers[k] EXCEPT !.Description = @ \o <<ToString(id), ToString(k)>>,
                            !.HintAnchor = @ \o <<ToString(id), ToString(k)>>]]

\* The categories built by one NewCategory call per entry of shape, over the
\* checkers of flat in order. Category IDs are handed out in order of creation,
\* after the first IDs already in use.
BuildCategories(flat, shape, enabled, first) ==
    [i \in 1..Len(shape) |->
        NewCategory(first + i,
                    Described(SubSeq(flat, Sum(shape, i - 1) + 1, Sum(shape, i)), first + i),
                    enabled[i],
                    <<"http://test.com/", ToString(first + i), "/">>)]

\* ------------------------------------------------------------------------
\* HealthChecker.RunChecks: the walk over categories and checkers
\* ------------------------------------------------------------------------
NoPos == <<0, 0>>

\* faulty variant: the walk enters disabled categories too
RECURSIVE Seek_IgnoringEnabled(_, _, _)
Seek_IgnoringEnabled(cats, i, k) ==
    IF i > Len(cats) THEN NoPos
    ELSE IF k > Len(cats[i].Checkers) THEN Seek_IgnoringEnabled(cats, i + 1, 1)
    ELSE IF cats[i].Checkers[k].HasCheck THEN <<i, k>>
    ELSE Seek_IgnoringEnabled(cats, i, k + 1)

\* faulty variant: a checker with a nil Check is run like any other
RECURSIVE Seek_RunningNilCheck(_, _, _)
Seek_RunningNilCheck(cats, i, k) ==
    IF i > Len(cats) THEN NoPos
    ELSE IF ~cats[i].Enabled \/ k > Len(cats[i].Checkers) THEN Seek_RunningNilCheck(cats, i + 1, 1)
    ELSE <<i, k>>

\* The first checker at or after checker k of category i that RunChecks runs:
\* only enabled categories are entered, and checkers with a nil Check are passed
\* over. NoPos when the loops run out.
RECURSIVE Seek(_, _, _)
Seek(cats, i, k) ==
    IF i > Len(cats) THEN NoPos
    ELSE IF ~cats[i].Enabled \/ k > Len(cats[i].Checkers) THEN Seek(cats, i + 1, 1)
    ELSE IF cats[i].Checkers[k].HasCheck THEN <<i, k>>
    ELSE Seek(cats, i, k + 1)

\* faulty variant: every failure clears success, the Warning flag is not looked at
SuccessAfter_IgnoringWarning(s, c, passed) == IF ~passed THEN FALSE ELSE s

\* faulty variant: success is what the last checker made it
SuccessAfter_OfLastChecker(s, c, passed) == IF ~passed /\ ~c.Warning THEN FALSE ELSE TRUE

\* success after runCheck returned passed for checker c
SuccessAfter(s, c, passed) == IF ~passed /\ ~c.Warning THEN FALSE ELSE s

\* faulty variant: every failure sets warning, the Warning flag is not looked at
WarningAfter_IgnoringWarning(w, c, passed) == IF ~passed THEN TRUE ELSE w

\* warning after runCheck returned passed for checker c
WarningAfter(w, c, passed) == IF ~passed /\ c.Warning THEN TRUE ELSE w

\* faulty variant: a fatal failure does not end the run
Aborts_Never(c, passed) == FALSE

\* faulty variant: a fatal checker ends the run also when it passes
Aborts_AfterFatal(c, passed) == c.Fatal

\* faulty variant: the failure of a Warning checker does not end the run
Aborts_UnlessWarning(c, passed) == ~passed /\ c.Fatal /\ ~c.Warning

\* faulty variant: every failure ends the run, the Fatal flag is not looked at
Aborts_OnAnyFailure(c, passed) == ~passed

\* RunChecks returns at once after runCheck returned passed for checker c
Aborts(c, passed) == ~passed /\ c.Fatal

\* ------------------------------------------------------------------------
\* HealthChecker.runCheck: one attempt
\* ------------------------------------------------------------------------
\* faulty variant: an error that is a CategoryError already is not wrapped again
ResultErr_KeepingWrapped(id, err) ==
    IF AsCategoryError(err) # Nil THEN err ELSE CategoryError(id, err)

\* checkResult.Err = CategoryError{category.ID, err}
ResultErr(id, err) == CategoryError(id, err)

\* faulty variant: a "/" is put between the base URL and the anchor
HintURL_WithSeparator(hintBaseURL, hintAnchor) == hintBaseURL \o <<"/">> \o hintAnchor

\* fmt.Sprintf("%s%s", category.HintBaseURL, c.HintAnchor)
HintURL(hintBaseURL, hintAnchor) == hintBaseURL \o hintAnchor

\* the CheckResult built from the checker's metadata and the probe's error
BuildResult(category, c, err) ==
    [Category |-> category.ID,
     Description |-> IF AsVerboseSuccess(err)
                     THEN c.Description \o <<"\n">> \o err.Message
                     ELSE c.Description,
     HintURL |-> HintURL(category.HintBaseURL, c.HintAnchor),
     Retry |-> FALSE,
     Warning |-> c.Warning,
     Err |-> IF AsVerboseSuccess(err) THEN Nil
             ELSE IF err # Nil THEN ResultErr(category.ID, err)
             ELSE Nil]

\* faulty variant: every failure is retried, the deadline is not looked at
ShouldRetry_Always(checkResult, c, t) == checkResult.Err # Nil

\* faulty variant: a failure at the deadline itself is retried too
ShouldRetry_AtDeadline(checkResult, c, t) ==
    checkResult.Err # Nil /\ ~Before(c.RetryDeadline, t)

\* the attempt is retried
ShouldRetry(checkResult, c, t) == checkResult.Err # Nil /\ Before(t, c.RetryDeadline)

\* faulty variant: the cause is always hidden, SurfaceErrorOnRetry is not looked at
RetryResult_AlwaysWaiting(checkResult, c) ==
    [checkResult EXCEPT !.Retry = TRUE, !.Err = WaitingError]

\* the transient result handed to the observer before a retry
RetryResult(checkResult, c) ==
    [checkResult EXCEPT !.Retry = TRUE,
                        !.Err = IF ~c.SurfaceErrorOnRetry THEN WaitingError ELSE @]

\* ------------------------------------------------------------------------
\* SimpleReporter
\* ------------------------------------------------------------------------
\* faulty variant: the result is not yet stored when the call returns
Observer_NotYetStored(rs, result) == rs

\* SimpleReporter.Observer(result), the observer handed to RunChecks: when the
\* call returns the result is stored after the results rs
Observer(rs, result) == Append(rs, result)

\* Replay has not been called
NoReplay == [called |-> FALSE, success |-> TRUE, warning |-> FALSE, observed |-> <<>>]

\* SimpleReporter.Replay over cr.results = rs: the loop over the stored results,
\* from the locals (s, w) and the results handed to the observer so far
RECURSIVE ReplayLoop(_, _, _, _)
ReplayLoop(rs, s, w, observed) ==
    IF rs = <<>> THEN [called |-> TRUE, success |-> s, warning |-> w, observed |-> observed]
    ELSE LET result == Head(rs)
         IN  ReplayLoop(Tail(rs),
                        IF result.Err # Nil /\ ~result.Warning THEN FALSE ELSE s,
                        IF result.Err # Nil /\ result.Warning THEN TRUE ELSE w,
                        Append(observed, result))

Replayed(rs) == ReplayLoop(rs, TRUE, FALSE, <<>>)

\* err.Error(): a CategoryError gives the text of the error it wraps
RECURSIVE ErrorText(_)
ErrorText(err) ==
    IF err.type = "CategoryError" THEN ErrorText(err.Err)
    ELSE IF err.type \in {"nil", "VerboseSuccess"} THEN <<>>
    ELSE <<err.type>>

CheckSuccess == "success"
CheckWarn == "warning"
CheckErr == "error"

\* the status ToJSON gives to a result that is not a retry
CheckStatus(result) ==
    IF result.Err # Nil THEN CheckErr
    ELSE IF result.Warning THEN CheckWarn
    ELSE CheckSuccess

\* the Check that ToJSON makes of a result
JSONCheck(result) ==
    [Description |-> result.Description,
     Result |-> CheckStatus(result),
     Error |-> IF result.Err # Nil THEN ErrorText(result.Err) ELSE <<>>,
     Hint |-> IF result.Err # Nil /\ result.HintURL # <<>> THEN result.HintURL ELSE <<>>]

\* collectJSONOutput, called by Replay on each of the results rs in turn:
\* categories is what the calls have collected so far
RECURSIVE CollectJSONOutput(_, _)
CollectJSONOutput(rs, categories) ==
    IF rs = <<>> THEN categories
    ELSE LET result == Head(rs)
             grouped ==
                 IF categories = <<>> \/ categories[Len(categories)].Name # result.Category
                 THEN Append(categories, [Name |-> result.Category, Checks |-> <<>>])
                 ELSE categories
             collected ==
                 IF ~result.Retry
                 THEN [grouped EXCEPT ![Len(grouped)].Checks = Append(@, JSONCheck(result))]
                 ELSE grouped
         IN  CollectJSONOutput(Tail(rs), collected)

\* the CheckOutput that SimpleReporter.ToJSON marshals, for cr.results = rs
JSONOutput(rs) ==
    [method |-> "ToJSON",
     Success |-> Replayed(rs).success,
     Warning |-> Replayed(rs).warning,
     Categories |-> CollectJSONOutput(Replayed(rs).observed, <<>>)]

okStatus == "ok"
warnStatus == "warn"
failStatus == "fail"

\* what the printer of SimpleReporter.Print writes for a result: the line with
\* the status, the Err line and the See line (empty when not written)
PrintedEntry(result) ==
    [Status |-> IF result.Err # Nil THEN failStatus
                ELSE IF result.Warning THEN warnStatus
                ELSE okStatus,
     Category |-> result.Category,
     Description |-> result.Description,
     Err |-> IF result.Err # Nil THEN ErrorText(result.Err) ELSE <<>>,
     See |-> IF result.HintURL # <<>> /\ (result.Err # Nil \/ result.Warning)
             THEN result.HintURL ELSE <<>>]

\* the last word SimpleReporter.Print writes
PrintedVerdict(replayed) ==
    IF replayed.success THEN "Ok"
    ELSE IF replayed.warning THEN "Warning"
    ELSE IF \E n \in 1..Len(replayed.observed) : replayed.observed[n].Err # Nil THEN "Error"
    ELSE ""

\* what SimpleReporter.Print writes to w, for cr.results = rs: Replay calls the
\* printer on each result in turn
Printed(rs) ==
    [method |-> "Print",
     Entries |-> [n \in 1..Len(Replayed(rs).observed) |->
                     PrintedEntry(Replayed(rs).observed[n])],
     Verdict |-> PrintedVerdict(Replayed(rs))]

\* NewSimpleReporter(): the results are empty (they are the variable results),
\* the fields success and warning hold the zero value
NewSimpleReporter == [success |-> FALSE, warning |-> FALSE]

\* no method of the reporter that renders or reads it has been called
NoReport == [method |-> "none"]

\* the config arguments of NewHealthChecker: nil, or &HealthCheckConfig{}
NilConfig == "nil"
HealthCheckConfig == "HealthCheckConfig{}"

\* history records: in the run-th RunChecks call the probe of checker k of
\* category i, handed the context ctx and the map seen, did put to it and
\* returned err at time t; the observer was handed r as
\* results[n] and found IsCategoryError(r.Err, id) true for the ids of from; the
\* caller went to sleep; held is the number of results the observer had stored
\* when the probe was invoked or the sleep began
ProbeEvent(i, k, err, t, seen, put, ctx, run, held) ==
    [ev |-> "probe", c |-> i, k |-> k, at |-> t, out |-> err, n |-> 0,
     seen |-> seen, put |-> put, ctx |-> ctx, run |-> run, held |-> held]
ResultEvent(i, k, t, n, r) ==
    [ev |-> "result", c |-> i, k |-> k, at |-> t, out |-> Nil, n |-> n,
     from |-> {id \in CategoryIDs \cup {NoCategory} : IsCategoryError(r.Err, id)}]
SleepEvent(i, k, t, held) ==
    [ev |-> "sleep", c |-> i, k |-> k, at |-> t, out |-> Nil, n |-> 0, held |-> held]

\* ------------------------------------------------------------------------
\* Actions
\* ------------------------------------------------------------------------
\* NewHealthChecker(categories, &HealthCheckConfig{}): categories is one of the
\* ways to cut one of lists into at most `most` categories; window is what
\* DefaultRetryWindow is set to.
NewHealthChecker(lists, most, window) ==
    /\ \E flat \in lists :
       \E shape \in {sh \in Shapes(Len(flat)) : Len(sh) <= most} :
       \E enabled \in [1..Len(shape) -> BOOLEAN] :
          Categories = BuildCategories(flat, shape, enabled, 0)
    /\ registered = [i \in 1..Len(Categories) |-> Categories[i].ID]
    /\ retryWindow = window
    /\ now = StartTime
    /\ pc = "idle"
    /\ ci = 0
    /\ ki = 0
    /\ success = TRUE
    /\ warning = FALSE
    /\ results = <<>>
    /\ state = EmptyData
    /\ replay = NoReplay
    /\ trace = <<>>
    /\ config = HealthCheckConfig
    /\ hc = "engine"
    /\ runs = 0
    /\ cr = NewSimpleReporter
    /\ report = NoReport

\* the engine is constructed with no category or with one; AppendCategories
\* registers the further ones
Init == NewHealthChecker(CheckerLists, 1, DefaultRetryWindow)

\* NewHealthChecker(nil, nil): the composite literal evaluates *config, the
\* dereference of the nil pointer panics and the function does not return
NewHealthCheckerOfNil ==
    /\ config = NilConfig
    /\ hc = "none"
    /\ pc = "panic"
    /\ Categories = <<>>
    /\ registered = <<>>
    /\ retryWindow = DefaultRetryWindow
    /\ now = StartTime
    /\ ci = 0
    /\ ki = 0
    /\ success = TRUE
    /\ warning = FALSE
    /\ results = <<>>
    /\ state = EmptyData
    /\ replay = NoReplay
    /\ trace = <<>>
    /\ runs = 0
    /\ cr = NewSimpleReporter
    /\ report = NoReport

\* faulty variant: the new categories are put before the registered ones
AppendedCategories_Prepend(old, categories) == categories \o old

\* hc.Categories = append(hc.Categories, categories...)
AppendedCategories(old, categories) == old \o categories

AppendCategories ==
    /\ pc = "idle"
    /\ \E n \in {m \in Sizes : TotalCheckers(Categories) + m \in Sizes} :
       \E flat \in {l \in CheckerLists : Len(l) = n} :
       \E shape \in Shapes(n) \ {<<>>} :
       \E enabled \in [1..Len(shape) -> BOOLEAN] :
          LET categories == BuildCategories(flat, shape, enabled, Len(Categories))
          IN  /\ Categories' = AppendedCategories(Categories, categories)
              /\ registered' =
                    registered \o [i \in 1..Len(categories) |-> categories[i].ID]
    /\ UNCHANGED <<retryWindow, now, pc, ci, ki, success, warning, results, state, replay, trace>>
    /\ UNCHANGED <<config, hc, runs, cr, report>>

\* the caller moves on to position pos of the walk, or RunChecks returns
Goto(pos) ==
    /\ ci' = pos[1]
    /\ ki' = pos[2]
    /\ pc' = IF pos = NoPos THEN "done" ELSE "attempt"

\* RunChecks is called, for at most the most-th time on the engine and not
\* before the call before it has returned: the locals are set and the walk
\* reaches its first checker
RunChecksUpTo(most) ==
    /\ pc \in {"idle", "done"}
    /\ runs < most
    /\ success' = TRUE
    /\ warning' = FALSE
    /\ Goto(Seek(Categories, 1, 1))
    /\ runs' = runs + 1
    /\ UNCHANGED <<Categories, retryWindow, now, results, state, replay, registered, trace>>
    /\ UNCHANGED <<config, hc, cr, report>>

\* RunChecks is called once on the engine
RunChecks == RunChecksUpTo(1)

\* One pass of the loop of runCheck: the probe is called with hc.state, does put
\* to the map and returns err, one of outs; on SkipError runCheck returns true; otherwise the result is built and either
\* handed to the observer as a retry, after which the caller sleeps, or handed
\* to the observer as final, after which runCheck returns and RunChecks updates
\* success and warning and moves on or returns.
Attempt(outs, puts) ==
    /\ pc = "attempt"
    /\ \E err \in outs : \E put \in puts :
        LET category == Categories[ci]
            c == category.Checkers[ki]
            checkResult == BuildResult(category, c, err)
            ctx == WithTimeout(Background, now, DefaultTimeOut)
            probed == Append(trace, ProbeEvent(ci, ki, err, now, state, put, ctx, runs, Len(results)))
            observed(r) == Append(probed, ResultEvent(ci, ki, now, Len(results) + 1, r))
            return(passed) ==
                /\ success' = SuccessAfter(success, c, passed)
                /\ warning' = WarningAfter(warning, c, passed)
                /\ IF Aborts(c, passed) THEN pc' = "done" /\ UNCHANGED <<ci, ki>>
                   ELSE Goto(Seek(Categories, ci, ki + 1))
        IN  /\ state' = DataAfter(state, put)
            /\ IF AsSkipError(err)
               THEN /\ trace' = probed
                    /\ results' = results
                    /\ return(TRUE)
               ELSE IF ShouldRetry(checkResult, c, now)
               THEN /\ results' = Observer(results, RetryResult(checkResult, c))
                    /\ trace' = observed(RetryResult(checkResult, c))
                    /\ pc' = "sleep"
                    /\ UNCHANGED <<ci, ki, success, warning>>
               ELSE /\ results' = Observer(results, checkResult)
                    /\ trace' = observed(checkResult)
                    /\ return(checkResult.Err = Nil)
    /\ UNCHANGED <<Categories, retryWindow, now, replay, registered>>
    /\ UNCHANGED <<config, hc, runs, cr, report>>

\* faulty variant: the sleep is of the default length, whatever the window is set to
WakeTime_DefaultWindow(t, window, over) == t + DefaultRetryWindow + over

\* the clock at the next test of the deadline, after a sleep of window begun at t
WakeTime(t, window, over) == t + window + over

\* time.Sleep(DefaultRetryWindow): the caller wakes after at least the window,
\* and the next pass of the loop reads the clock after its probe has returned
Sleep ==
    /\ pc = "sleep"
    /\ \E over \in 0..MaxOversleep :
          /\ now' = WakeTime(now, retryWindow, over)
          /\ trace' = Append(trace, SleepEvent(ci, ki, now, Len(results)))
    /\ pc' = "attempt"
    /\ UNCHANGED <<Categories, retryWindow, ci, ki, success, warning, results, state, replay, registered>>
    /\ UNCHANGED <<config, hc, runs, cr, report>>

\* SimpleReporter.Replay(observer), on the reporter whose Observer was handed to
\* RunChecks, once RunChecks has returned
Replay ==
    /\ pc = "done"
    /\ replay = NoReplay
    /\ report = NoReport
    /\ replay' = Replayed(results)
    /\ UNCHANGED <<Categories, retryWindow, now, pc, ci, ki, success, warning, results, state,
                   registered, trace>>
    /\ UNCHANGED <<config, hc, runs, cr, report>>

\* SimpleReporter.ToJSON(), once RunChecks has returned
ToJSON ==
    /\ pc = "done"
    /\ replay = NoReplay
    /\ report = NoReport
    /\ report' = JSONOutput(results)
    /\ UNCHANGED <<Categories, retryWindow, now, pc, ci, ki, success, warning, results, state,
                   replay, registered, trace, config, hc, runs, cr>>

\* SimpleReporter.Print(w), once RunChecks has returned
PrintTo ==
    /\ pc = "done"
    /\ replay = NoReplay
    /\ report = NoReport
    /\ report' = Printed(results)
    /\ UNCHANGED <<Categories, retryWindow, now, pc, ci, ki, success, warning, results, state,
                   replay, registered, trace, config, hc, runs, cr>>

\* category.WithContext(ctx), on a registered category before the run: the
\* engine holds the pointer to the category, whose Context is set
WithContext ==
    /\ pc = "idle"
    /\ \E i \in 1..Len(Categories) : \E ctx \in CategoryContexts :
          /\ Categories[i].Context = Background
          /\ ctx # Background
          /\ Categories' = [Categories EXCEPT ![i].Context = ctx]
    /\ UNCHANGED <<retryWindow, now, pc, ci, ki, success, warning, results, state, replay,
                   registered, trace, config, hc, runs, cr, report>>

\* SimpleReporter.Successful(), once RunChecks has returned: the field success
Successful ==
    /\ pc = "done"
    /\ replay = NoReplay
    /\ report = NoReport
    /\ report' = [method |-> "Successful", value |-> cr.success]
    /\ UNCHANGED <<Categories, retryWindow, now, pc, ci, ki, success, warning, results, state,
                   replay, registered, trace, config, hc, runs, cr>>

\* SimpleReporter.HasWarning(), once RunChecks has returned: the field warning
HasWarning ==
    /\ pc = "done"
    /\ replay = NoReplay
    /\ report = NoReport
    /\ report' = [method |-> "HasWarning", value |-> cr.warning]
    /\ UNCHANGED <<Categories, retryWindow, now, pc, ci, ki, success, warning, results, state,
                   replay, registered, trace, config, hc, runs, cr>>

Next == AppendCategories \/ RunChecks \/ Attempt(Outcomes, NoWrites) \/ Sleep

Spec == Init /\ [][Next]_vars

\* The engine constructed with a config or with nil for it
InitConstructing == Init \/ NewHealthCheckerOfNil

SpecConstructing == InitConstructing /\ [][Next]_vars

\* The engine with a SimpleReporter: its Observer is the observer of RunChecks,
\* and one of the reporter's methods is called after RunChecks has returned.
NextReporter == Next \/ Replay \/ ToJSON \/ PrintTo \/ Successful \/ HasWarning

SpecReporter == Init /\ [][NextReporter]_vars

\* The engine with probes that write to the shared state: one or two checkers,
\* with or without retry deadline, in one category or in two.
SharingCheckers ==
    {Checker(FALSE, FALSE, TRUE, d, FALSE) : d \in {ZeroTime} \cup RetryDeadlines}

SharingLists ==
    {<<a>> : a \in SharingCheckers} \cup {<<a, b>> : a \in SharingCheckers, b \in SharingCheckers}

InitSharing == NewHealthChecker(SharingLists, 2, DefaultRetryWindow)

NextSharing == RunChecks \/ Attempt(Outcomes, Writes) \/ Sleep

SpecSharing == InitSharing /\ [][NextSharing]_vars

\* The engine with probes that may wrap their errors in a CategoryError
\* themselves: one or two checkers, with or without retry deadline, hiding or
\* surfacing the error of a retry, in one category or in two.
WrappingCheckers ==
    {Checker(FALSE, FALSE, TRUE, ZeroTime, FALSE)}
    \cup {Checker(FALSE, FALSE, TRUE, d, s) : d \in RetryDeadlines, s \in BOOLEAN}

WrappingLists ==
    {<<a>> : a \in WrappingCheckers}
    \cup {<<a, b>> : a \in WrappingCheckers, b \in WrappingCheckers}

InitWrapping == NewHealthChecker(WrappingLists, 2, DefaultRetryWindow)

NextWrapping == RunChecks \/ Attempt(Outcomes \cup WrappedErrors, NoWrites) \/ Sleep

SpecWrapping == InitWrapping /\ [][NextWrapping]_vars

\* The engine on which RunChecks is called up to MaxRuns times, with probes
\* that write to the shared state: one or two checkers without retry deadline,
\* in one category or in two.
RerunCheckers == {Checker(FALSE, FALSE, TRUE, ZeroTime, FALSE)}

RerunLists ==
    {<<a>> : a \in RerunCheckers} \cup {<<a, b>> : a \in RerunCheckers, b \in RerunCheckers}

InitRerun == NewHealthChecker(RerunLists, 2, DefaultRetryWindow)

NextRerun == RunChecksUpTo(MaxRuns) \/ Attempt(Outcomes, Writes)

SpecRerun == InitRerun /\ [][NextRerun]_vars

\* The engine with one or two checkers, with or without retry deadline, in one
\* category or in two, whose contexts are set before the run.
InitContexts == NewHealthChecker(WrappingLists, 2, DefaultRetryWindow)

NextContexts == WithContext \/ RunChecks \/ Attempt(Outcomes, NoWrites) \/ Sleep

SpecContexts == InitContexts /\ [][NextContexts]_vars

\* The engine with one checker whose RetryDeadline lies 0..MaxRetryPeriod ticks
\* after the start, and the retry window set to 1..MaxWindow ticks.
RetryingCheckers ==
    {Checker(f, w, TRUE, StartTime + d, s) :
        f \in BOOLEAN, w \in BOOLEAN, d \in 0..MaxRetryPeriod, s \in BOOLEAN}

RetryingLists == {<<a>> : a \in RetryingCheckers}

InitRetrying == \E window \in 1..MaxWindow : NewHealthChecker(RetryingLists, 1, window)

NextRetrying == RunChecks \/ Attempt(Outcomes, NoWrites) \/ Sleep

SpecRetrying == InitRetrying /\ [][NextRetrying]_vars

\* The engine whose probes all return and whose sleeps all end: one checker with
\* any flags and a RetryDeadline 0..MaxRetryPeriod ticks after the start, or
\* one or two plain checkers with or without RetryDeadline in one category or in
\* two; the retry window is set to 1..MaxWindow ticks.
TerminatingLists == RetryingLists \cup SharingLists

InitTerminating ==
    \E window \in 1..MaxWindow : NewHealthChecker(TerminatingLists, 2, window)

NextTerminating == RunChecks \/ Attempt(Outcomes, NoWrites) \/ Sleep

SpecTerminating ==
    /\ InitTerminating
    /\ [][NextTerminating]_vars
    /\ WF_vars(Attempt(Outcomes, NoWrites))
    /\ WF_vars(Sleep)


\* ------------------------------------------------------------------------
\* Reading the history
\* ------------------------------------------------------------------------
Events == 1..Len(trace)

\* the checker an event belongs to
CheckerOf(e) == Categories[e.c].Checkers[e.k]

IsProbe(e) == e.ev = "probe"
IsResult(e) == e.ev = "result"

\* the event hands the observer a terminal result (retry = false)
IsTerminal(e) == IsResult(e) /\ ~results[e.n].Retry

\* the event hands the observer a transient result (retry = true)
IsTransient(e) == IsResult(e) /\ results[e.n].Retry

\* the event is a terminal failure: a retry = false result with a non-nil err
IsTerminalFailure(e) == IsTerminal(e) /\ results[e.n].Err # Nil

\* RunChecks has returned (success, warning)
Returned == pc = "done"

\* the place of an event's checker in the walk: <<category index, checker index>>
PosOf(e) == <<e.c, e.k>>

\* place p lies before place q in the walk
PosBefore(p, q) == p[1] < q[1] \/ (p[1] = q[1] /\ p[2] < q[2])

\* the places of the checkers run so far
PositionsRun == {PosOf(trace[j]) : j \in Events}

\* runCheck has returned for the checker at place p
Finished(p) == p \in PositionsRun /\ (Returned \/ <<ci, ki>> # p)

\* the results handed to the observer for the checker at place p, in order
ResultsOf(p) ==
    LET evs == SelectSeq(trace, LAMBDA e : IsResult(e) /\ PosOf(e) = p)
    IN  [i \in 1..Len(evs) |-> results[evs[i].n]]

\* the probe invocations of the checker at place p
ProbesOf(p) == {j \in Events : IsProbe(trace[j]) /\ PosOf(trace[j]) = p}

\* the probe of the checker at place p returned a SkipError
Skipped(p) == \E j \in ProbesOf(p) : AsSkipError(trace[j].out)

\* the probe returned a failure: neither nil, nor SkipError, nor VerboseSuccess
IsFailure(err) == err # Nil /\ ~AsSkipError(err) /\ ~AsVerboseSuccess(err)

\* the probe invocations so far, in order
Probes == SelectSeq(trace, IsProbe)

\* the results with retry = false among rs, in order
TerminalResults(rs) == SelectSeq(rs, LAMBDA r : ~r.Retry)

\* every attempt of the checker at place p failed
PersistentlyFailing(p) == \A j \in ProbesOf(p) : IsFailure(trace[j].out)

\* the time of the first attempt of the checker at place p
StartOf(p) == trace[CHOOSE j \in ProbesOf(p) : \A j2 \in ProbesOf(p) : j <= j2].at

\* the retry period of the checker at place p: from its first attempt to its deadline
PeriodOf(p) == Categories[p[1]].Checkers[p[2]].RetryDeadline - StartOf(p)

\* the number of retry = true results of the checker at place p
Retries(p) == Len(SelectSeq(ResultsOf(p), LAMBDA r : r.Retry))

\* every attempt of the checker at place p but the first began exactly one retry
\* window after the one before
OnTime(p) ==
    \A j \in ProbesOf(p) :
        trace[j].at = StartOf(p) \/ \E j0 \in ProbesOf(p) : trace[j].at = trace[j0].at + retryWindow

\* a checker that RunChecks would run lies after checker k of category i
RunnableAfter(i, k) ==
    \E i2 \in 1..Len(Categories) : \E k2 \in 1..Len(Categories[i2].Checkers) :
        /\ i2 > i \/ (i2 = i /\ k2 > k)
        /\ Categories[i2].Enabled
        /\ Categories[i2].Checkers[k2].HasCheck

\* ------------------------------------------------------------------------
\* Claims
\* ------------------------------------------------------------------------
\* C1: RunChecks returns success = false if and only if some checker with
\* Warning = false produced a terminal failure during the run; the failures of
\* warning-flagged checkers never set success to false.
C1_SuccessIffNonWarningFailure ==
    Returned =>
        (success = FALSE <=>
            \E j \in Events : IsTerminalFailure(trace[j]) /\ ~CheckerOf(trace[j]).Warning)

\* a run that returned success = false in which a warning-flagged checker failed too
C1_Witness ==
    /\ Returned
    /\ success = FALSE
    /\ \E j \in Events : IsTerminalFailure(trace[j]) /\ CheckerOf(trace[j]).Warning

\* C2: RunChecks returns warning = true if and only if some checker with
\* Warning = true produced a terminal failure during the run, whatever success
\* is; after a warning checker that is not fatal failed, the checkers after it
\* are still invoked.
C2_WarningIffWarningFailure ==
    Returned =>
        /\ warning = TRUE <=>
              \E j \in Events : IsTerminalFailure(trace[j]) /\ CheckerOf(trace[j]).Warning
        /\ \A j \in Events :
              /\ IsTerminalFailure(trace[j])
              /\ CheckerOf(trace[j]).Warning
              /\ ~CheckerOf(trace[j]).Fatal
              /\ RunnableAfter(trace[j].c, trace[j].k)
              => \E j2 \in Events : /\ j2 > j
                                    /\ IsProbe(trace[j2])
                                    /\ PosBefore(PosOf(trace[j]), PosOf(trace[j2]))

\* a run that returned warning = true with success = true, in which a checker
\* was invoked after the warning checker failed
C2_Witness ==
    /\ Returned
    /\ warning = TRUE
    /\ success = TRUE
    /\ \E j \in Events : \E j2 \in Events :
          /\ IsTerminalFailure(trace[j])
          /\ CheckerOf(trace[j]).Warning
          /\ j2 > j
          /\ IsProbe(trace[j2])
          /\ PosBefore(PosOf(trace[j]), PosOf(trace[j2]))

\* C3: once a checker flagged Fatal produces a terminal failure, RunChecks
\* returns at once: no probe of a later checker is invoked and no result is
\* handed to the observer after that terminal result.
C3_FatalFailureStopsRun ==
    \A j \in Events :
        IsTerminalFailure(trace[j]) /\ CheckerOf(trace[j]).Fatal
        => j = Len(trace) /\ Returned

\* a fatal checker failed while a checker that would have run lies after it
C3_Witness ==
    /\ Returned
    /\ trace # <<>>
    /\ IsTerminalFailure(trace[Len(trace)])
    /\ CheckerOf(trace[Len(trace)]).Fatal
    /\ RunnableAfter(trace[Len(trace)].c, trace[Len(trace)].k)

\* C4: the results handed out for one checker are zero or more retry = true
\* results followed by exactly one retry = false result, or none at all, and
\* none at all exactly when the checker signalled Skip.
C4_RetriesThenOneTerminal ==
    \A p \in PositionsRun :
        Finished(p) =>
            LET rs == ResultsOf(p)
            IN  /\ rs = <<>> <=> Skipped(p)
                /\ rs # <<>> =>
                      /\ ~rs[Len(rs)].Retry
                      /\ \A i \in 1..(Len(rs) - 1) : rs[i].Retry

\* C5: a checker whose probe returns SkipError yields no result, changes
\* neither success nor warning, and the run goes on with the next checker, also
\* when the checker is flagged Fatal.
C5_SkipYieldsNothing ==
    \A j \in Events :
        IsProbe(trace[j]) /\ AsSkipError(trace[j].out) =>
            /\ ResultsOf(PosOf(trace[j])) = <<>>
            /\ success = ~(\E j2 \in Events :
                            IsTerminalFailure(trace[j2]) /\ ~CheckerOf(trace[j2]).Warning)
            /\ warning = (\E j2 \in Events :
                            IsTerminalFailure(trace[j2]) /\ CheckerOf(trace[j2]).Warning)
            /\ \A j2 \in Events : j2 > j => PosOf(trace[j2]) # PosOf(trace[j])
            /\ j = Len(trace) /\ RunnableAfter(trace[j].c, trace[j].k)
                  => pc = "attempt" /\ PosBefore(PosOf(trace[j]), <<ci, ki>>)

\* C6: an attempt is retried if and only if it failed and the clock is strictly
\* before the checker's RetryDeadline; any other attempt that did not skip ends
\* the checker with a terminal result; a checker without RetryDeadline is
\* attempted once and yields one result, or none on Skip.
C6_RetryIffFailedBeforeDeadline ==
    /\ \A j \in Events :
          IsProbe(trace[j]) =>
            LET e == trace[j]
                p == PosOf(e)
                retried == j < Len(trace) /\ IsTransient(trace[j + 1]) /\ PosOf(trace[j + 1]) = p
                again ==
                    \/ j + 1 = Len(trace) /\ pc = "sleep" /\ <<ci, ki>> = p
                    \/ /\ j + 2 <= Len(trace)
                       /\ trace[j + 2].ev = "sleep"
                       /\ \/ j + 2 = Len(trace) /\ pc = "attempt" /\ <<ci, ki>> = p
                          \/ j + 3 <= Len(trace) /\ IsProbe(trace[j + 3]) /\ PosOf(trace[j + 3]) = p
                final ==
                    /\ j < Len(trace)
                    /\ IsTerminal(trace[j + 1])
                    /\ PosOf(trace[j + 1]) = p
                    /\ \A j2 \in Events : j2 > j + 1 => PosOf(trace[j2]) # p
            IN  /\ retried <=> IsFailure(e.out) /\ e.at < CheckerOf(e).RetryDeadline
                /\ retried => again
                /\ ~retried /\ ~AsSkipError(e.out) => final
    /\ \A p \in PositionsRun :
          Categories[p[1]].Checkers[p[2]].RetryDeadline = ZeroTime =>
              /\ Cardinality(ProbesOf(p)) = 1
              /\ Len(ResultsOf(p)) = IF Skipped(p) THEN 0 ELSE 1

\* an attempt that failed exactly at the deadline ended a checker that had been
\* retried before, and a checker without deadline failed
C6_Witness ==
    /\ \E j \in Events :
          /\ IsProbe(trace[j])
          /\ IsFailure(trace[j].out)
          /\ trace[j].at = CheckerOf(trace[j]).RetryDeadline
          /\ \E j0 \in Events : j0 < j /\ IsTransient(trace[j0]) /\ PosOf(trace[j0]) = PosOf(trace[j])
    /\ \E j \in Events :
          /\ IsProbe(trace[j])
          /\ IsFailure(trace[j].out)
          /\ CheckerOf(trace[j]).RetryDeadline = ZeroTime

\* C7: a retry = true result carries a non-nil err: the "waiting for check to
\* complete" sentinel when SurfaceErrorOnRetry is false, the CategoryError
\* around the attempt's cause when it is true. A terminal failure carries the
\* CategoryError around the cause, never the sentinel.
C7_ErrOfResults ==
    \A j \in Events :
        IsResult(trace[j]) =>
            LET e == trace[j]
                r == results[e.n]
                cause == trace[j - 1].out
                wrapped == CategoryError(Categories[e.c].ID, cause)
            IN  /\ j > 1 /\ IsProbe(trace[j - 1]) /\ PosOf(trace[j - 1]) = PosOf(e)
                /\ r.Retry =>
                      /\ r.Err # Nil
                      /\ IsFailure(cause)
                      /\ r.Err = IF CheckerOf(e).SurfaceErrorOnRetry THEN wrapped
                                 ELSE WaitingError
                /\ ~r.Retry /\ r.Err # Nil =>
                      /\ IsFailure(cause)
                      /\ r.Err = wrapped
                      /\ r.Err # WaitingError

\* a run with a surfaced transient result, a hidden one and a terminal failure
C7_Witness ==
    /\ \E j \in Events : IsTransient(trace[j]) /\ CheckerOf(trace[j]).SurfaceErrorOnRetry
    /\ \E j \in Events : IsTransient(trace[j]) /\ ~CheckerOf(trace[j]).SurfaceErrorOnRetry
    /\ \E j \in Events : IsTerminalFailure(trace[j])

\* C8: a category with Enabled = false is passed over: none of its probes is
\* invoked, no result carries its ID, and success and warning are what the
\* checkers of the enabled categories alone make them.
C8_DisabledCategorySkipped ==
    \A i \in 1..Len(Categories) :
        ~Categories[i].Enabled =>
            /\ \A j \in Events : trace[j].c # i
            /\ \A n \in 1..Len(results) : results[n].Category # Categories[i].ID
            /\ pc \in {"attempt", "sleep"} => ci # i
            /\ success = ~(\E j \in Events :
                            /\ Categories[trace[j].c].Enabled
                            /\ IsTerminalFailure(trace[j])
                            /\ ~CheckerOf(trace[j]).Warning)
            /\ warning = (\E j \in Events :
                            /\ Categories[trace[j].c].Enabled
                            /\ IsTerminalFailure(trace[j])
                            /\ CheckerOf(trace[j]).Warning)

\* a run returned after passing over a disabled category that holds a checker
\* with a probe, and after running a checker of an enabled category
C8_Witness ==
    /\ Returned
    /\ trace # <<>>
    /\ \E i \in 1..Len(Categories) :
          /\ ~Categories[i].Enabled
          /\ \E k \in 1..Len(Categories[i].Checkers) : Categories[i].Checkers[k].HasCheck

\* the place of category id in the order of registration
RegIndex(id) == CHOOSE i \in 1..Len(registered) : registered[i] = id

\* C9: the results reach the observer in the order of execution: categories in
\* the order of their registration, those of AppendCategories after all earlier
\* ones and in the order given, and checkers in their order in the category; no
\* result of a later checker precedes a result of an earlier one.
C9_ResultsInRegistrationOrder ==
    /\ [i \in 1..Len(Categories) |-> Categories[i].ID] = registered
    /\ \A j1 \in Events : \A j2 \in Events :
          j1 < j2 /\ IsResult(trace[j1]) /\ IsResult(trace[j2]) =>
            LET p1 == <<RegIndex(results[trace[j1].n].Category), trace[j1].k>>
                p2 == <<RegIndex(results[trace[j2].n].Category), trace[j2].k>>
            IN  /\ trace[j1].n < trace[j2].n
                /\ ~PosBefore(p2, p1)

\* results of two categories, the second one registered by AppendCategories
C9_Witness ==
    /\ Returned
    /\ Len(registered) >= 2
    /\ \E n1 \in 1..Len(results) : \E n2 \in 1..Len(results) :
          n1 < n2 /\ results[n1].Category # results[n2].Category

\* C10: retries are local to a checker and blocking: between the first attempt
\* of a checker and its last, no probe of another checker is invoked and no
\* result of another checker is handed out; the retry = true results of a
\* checker directly precede that checker's terminal result.
C10_RetriesBlockTheWalk ==
    /\ \A j1 \in Events : \A j2 \in Events : \A j3 \in Events :
          j1 < j2 /\ j2 < j3 /\ PosOf(trace[j1]) = PosOf(trace[j3])
              => PosOf(trace[j2]) = PosOf(trace[j1])
    /\ \A j \in Events :
          IsTransient(trace[j]) =>
            /\ \A j2 \in Events :
                  j2 > j /\ IsResult(trace[j2]) /\ (\A j3 \in (j + 1)..(j2 - 1) : ~IsResult(trace[j3]))
                      => PosOf(trace[j2]) = PosOf(trace[j])
            /\ Finished(PosOf(trace[j])) =>
                  \E j2 \in Events :
                      j2 > j /\ IsTerminal(trace[j2]) /\ PosOf(trace[j2]) = PosOf(trace[j])

\* C11: within one RunChecks call, what a probe writes into the shared state is
\* seen, with the value written, by every probe invoked after it, in the same
\* category and in later ones, until a later probe writes the key again; the
\* engine itself never changes the shared state: the first probe is handed the
\* empty map, every other probe the map as the probe before it left it.
C11_WritesSeenByLaterProbes ==
    /\ \A i \in 1..Len(Probes) : \A j \in 1..Len(Probes) :
          /\ i < j
          /\ Probes[i].put # NoWrite
          /\ \A m \in (i + 1)..(j - 1) : Probes[m].put.key # Probes[i].put.key
          => /\ Probes[i].put.key \in DOMAIN Probes[j].seen
             /\ Probes[j].seen[Probes[i].put.key] = Probes[i].put.val
    /\ \A j \in 1..Len(Probes) :
          Probes[j].seen = IF j = 1 THEN EmptyData
                           ELSE DataAfter(Probes[j - 1].seen, Probes[j - 1].put)
    /\ Probes # <<>> =>
          state = DataAfter(Probes[Len(Probes)].seen, Probes[Len(Probes)].put)

\* a probe wrote a key, a later attempt of it wrote the key again, and a probe
\* of the next category saw the second value
C11_Witness ==
    \E i \in 1..Len(Probes) : \E j \in 1..Len(Probes) : \E m \in 1..Len(Probes) :
        /\ i < j /\ j < m
        /\ Probes[i].put = Put("one", "two")
        /\ Probes[j].put = Put("one", "three")
        /\ Probes[m].c # Probes[i].c
        /\ Probes[m].seen["one"] = "three"

\* C12: a probe that returns VerboseSuccess{message} passed: that attempt hands
\* out exactly one result, with retry = false, err nil and the checker's
\* description followed by a newline and the message; the checker is not
\* attempted again, also when its RetryDeadline lies ahead; success and warning
\* stay what the terminal failures made them, and the run goes on with the next
\* checker, also when the checker is flagged Fatal.
C12_VerboseSuccessPasses ==
    \A j \in Events :
        IsProbe(trace[j]) /\ trace[j].out.type = "VerboseSuccess" =>
            LET e == trace[j]
                p == PosOf(e)
            IN  /\ j < Len(trace)
                /\ IsResult(trace[j + 1])
                /\ PosOf(trace[j + 1]) = p
                /\ ~results[trace[j + 1].n].Retry
                /\ results[trace[j + 1].n].Err = Nil
                /\ results[trace[j + 1].n].Description =
                      CheckerOf(e).Description \o <<"\n">> \o e.out.Message
                /\ \A j2 \in Events : j2 > j + 1 => PosOf(trace[j2]) # p
                /\ success = ~(\E j2 \in Events :
                                IsTerminalFailure(trace[j2]) /\ ~CheckerOf(trace[j2]).Warning)
                /\ warning = (\E j2 \in Events :
                                IsTerminalFailure(trace[j2]) /\ CheckerOf(trace[j2]).Warning)
                /\ j + 1 = Len(trace) =>
                      IF RunnableAfter(e.c, e.k)
                      THEN pc = "attempt" /\ PosBefore(p, <<ci, ki>>)
                      ELSE Returned

\* a fatal checker whose RetryDeadline lies ahead returned VerboseSuccess after
\* a failed attempt, and the checker after it was run
C12_Witness ==
    \E j \in Events : \E j2 \in Events :
        /\ IsProbe(trace[j])
        /\ trace[j].out.type = "VerboseSuccess"
        /\ CheckerOf(trace[j]).Fatal
        /\ trace[j].at < CheckerOf(trace[j]).RetryDeadline
        /\ j > 1 /\ trace[j - 1].ev = "sleep"
        /\ j2 > j
        /\ IsProbe(trace[j2])
        /\ PosBefore(PosOf(trace[j]), PosOf(trace[j2]))

\* C13: every terminal failure carries a CategoryError whose Category is the
\* result's own category ID and whose cause is the error the probe returned,
\* also when the probe had wrapped its error in a CategoryError itself; so
\* IsCategoryError(result.Err, id) is true exactly for the ID of the category the
\* checker ran in, and false for every ID when the err is no CategoryError.
C13_TerminalFailureIsCategoryError ==
    \A j \in Events :
        IsResult(trace[j]) =>
            LET e == trace[j]
                r == results[e.n]
            IN  /\ IsTerminalFailure(e) =>
                      /\ r.Err.type = "CategoryError"
                      /\ r.Err.Category = r.Category
                      /\ r.Category = Categories[e.c].ID
                      /\ r.Err.Err = trace[j - 1].out
                      /\ e.from = {Categories[e.c].ID}
                /\ r.Err.type # "CategoryError" => e.from = {}

\* a terminal failure whose probe had wrapped its error for another category of
\* the engine, and a result with an err that is no CategoryError
C13_Witness ==
    /\ \E j \in Events :
          /\ IsTerminalFailure(trace[j])
          /\ trace[j - 1].out.type = "CategoryError"
          /\ trace[j - 1].out.Category # Categories[trace[j].c].ID
          /\ \E i \in 1..Len(Categories) : Categories[i].ID = trace[j - 1].out.Category
    /\ \E j \in Events : IsTransient(trace[j]) /\ results[trace[j].n].Err = WaitingError

\* C14: when the Observer of a SimpleReporter received every result of a
\* RunChecks call, Replay on that reporter returns the pair (success, warning)
\* that RunChecks returned, also when a checker was retried before its terminal
\* result.
C14_ReplayReturnsSamePair ==
    replay.called => replay.success = success /\ replay.warning = warning

\* C15: Replay hands its observer the stored results with retry = false, each
\* once and in the order observed, and never a retry = true result; the pair it
\* returns is computed from the terminal results alone.
C15_ReplayOnlyTerminalResults ==
    replay.called =>
        /\ replay.observed = TerminalResults(results)
        /\ \A n \in 1..Len(replay.observed) : ~replay.observed[n].Retry
        /\ replay.success =
              ~(\E n \in 1..Len(results) :
                    ~results[n].Retry /\ results[n].Err # Nil /\ ~results[n].Warning)
        /\ replay.warning =
              (\E n \in 1..Len(results) :
                    ~results[n].Retry /\ results[n].Err # Nil /\ results[n].Warning)

C17_OneResultPerProbe ==
    /\ Len(results) = Cardinality({j \in Events : IsProbe(trace[j]) /\ ~AsSkipError(trace[j].out)})
    /\ \A j \in Events :
          /\ IsProbe(trace[j]) /\ ~AsSkipError(trace[j].out) =>
                /\ j < Len(trace)
                /\ IsResult(trace[j + 1])
                /\ PosOf(trace[j + 1]) = PosOf(trace[j])
          /\ IsProbe(trace[j]) /\ AsSkipError(trace[j].out) /\ j < Len(trace) =>
                ~IsResult(trace[j + 1])
          /\ IsResult(trace[j]) =>
                /\ j > 1 /\ IsProbe(trace[j - 1])
                /\ trace[j].n = Cardinality({j2 \in 1..j : IsResult(trace[j2])})
          /\ /\ IsTerminalFailure(trace[j])
             /\ ~CheckerOf(trace[j]).Fatal
             /\ RunnableAfter(trace[j].c, trace[j].k)
             => IF j = Len(trace)
                THEN pc = "attempt" /\ PosBefore(PosOf(trace[j]), <<ci, ki>>)
                ELSE /\ IsProbe(trace[j + 1])
                     /\ PosBefore(PosOf(trace[j]), PosOf(trace[j + 1]))

\* a checker that is not fatal failed for good after a retry, and the result of
\* the next checker followed
C17_Witness ==
    \E j \in Events : \E j2 \in Events :
        /\ IsTerminalFailure(trace[j])
        /\ ~CheckerOf(trace[j]).Fatal
        /\ j > 3
        /\ IsTransient(trace[j - 3])
        /\ j2 > j
        /\ IsResult(trace[j2])
        /\ PosBefore(PosOf(trace[j]), PosOf(trace[j2]))

\* C18: a checker whose Check is nil is passed over in silence: it is never
\* run, no result is handed out for it, success and warning stay what the
\* terminal failures of the other checkers made them, and it does not end the
\* run, also when flagged Fatal: unless a fatal checker failed, every checker
\* with a probe in an enabled category has been run when RunChecks returns.
C18_NilProbePassedOver ==
    /\ \A i \in 1..Len(Categories) : \A k \in 1..Len(Categories[i].Checkers) :
          ~Categories[i].Checkers[k].HasCheck =>
              /\ <<i, k>> \notin PositionsRun
              /\ pc \in {"attempt", "sleep"} => <<ci, ki>> # <<i, k>>
    /\ success = ~(\E j \in Events :
                    /\ IsTerminalFailure(trace[j])
                    /\ CheckerOf(trace[j]).HasCheck
                    /\ ~CheckerOf(trace[j]).Warning)
    /\ warning = (\E j \in Events :
                    /\ IsTerminalFailure(trace[j])
                    /\ CheckerOf(trace[j]).HasCheck
                    /\ CheckerOf(trace[j]).Warning)
    /\ Len(results) = Cardinality({j \in Events : IsResult(trace[j]) /\ CheckerOf(trace[j]).HasCheck})
    /\ Returned /\ ~(\E j \in Events : IsTerminalFailure(trace[j]) /\ CheckerOf(trace[j]).Fatal) =>
          \A i \in 1..Len(Categories) : \A k \in 1..Len(Categories[i].Checkers) :
              Categories[i].Enabled /\ Categories[i].Checkers[k].HasCheck
                  => <<i, k>> \in PositionsRun

\* the run passed over a fatal checker with a nil Check in an enabled category
\* and ran the checker after it
C18_Witness ==
    /\ Returned
    /\ \E i \in 1..Len(Categories) : \E k \in 1..Len(Categories[i].Checkers) :
          /\ Categories[i].Enabled
          /\ ~Categories[i].Checkers[k].HasCheck
          /\ Categories[i].Checkers[k].Fatal
          /\ \E j \in Events : IsResult(trace[j]) /\ PosBefore(<<i, k>>, PosOf(trace[j]))

\* C19: during one RunChecks call the flags are monotonic: success starts true
\* and, once false, is not set back to true; warning starts false and, once
\* true, is not set back to false.
C19_FlagsMonotonic ==
    [][/\ pc = "idle" /\ pc' # "idle" => success' = TRUE /\ warning' = FALSE
       /\ pc # "idle" => /\ ~success => ~success'
                         /\ warning => warning']_vars

\* a checker passed after success had been set to false
C19_Witness ==
    \E j \in Events : \E j2 \in Events :
        /\ IsTerminalFailure(trace[j])
        /\ ~CheckerOf(trace[j]).Warning
        /\ j2 > j
        /\ IsTerminal(trace[j2])
        /\ results[trace[j2].n].Err = Nil
        /\ success = FALSE

\* C20: every result handed out, transient or terminal, is built from the
\* metadata of the checker being run: its category is the ID of the checker's
\* category, its warning the checker's Warning flag, its hintURL the category's
\* HintBaseURL directly followed by the checker's HintAnchor, and its description
\* the checker's Description, extended only when the probe returned VerboseSuccess.
C20_ResultFromCheckerMetadata ==
    \A j \in Events :
        IsResult(trace[j]) =>
            LET e == trace[j]
                r == results[e.n]
                c == CheckerOf(e)
                category == Categories[e.c]
                err == trace[j - 1].out
            IN  /\ r.Category = category.ID
                /\ r.Warning = c.Warning
                /\ r.HintURL = category.HintBaseURL \o c.HintAnchor
                /\ Len(r.HintURL) = Len(category.HintBaseURL) + Len(c.HintAnchor)
                /\ r.Description = IF err.type = "VerboseSuccess"
                                   THEN c.Description \o <<"\n">> \o err.Message
                                   ELSE c.Description

\* a transient result and a terminal result of two checkers of two categories,
\* which differ in Description, HintAnchor, HintBaseURL and Warning
C20_Witness ==
    \E j \in Events : \E j2 \in Events :
        /\ IsTransient(trace[j])
        /\ IsTerminal(trace[j2])
        /\ trace[j].c # trace[j2].c
        /\ CheckerOf(trace[j]).Description # CheckerOf(trace[j2]).Description
        /\ CheckerOf(trace[j]).HintAnchor # CheckerOf(trace[j2]).HintAnchor
        /\ Categories[trace[j].c].HintBaseURL # Categories[trace[j2].c].HintBaseURL
        /\ results[trace[j].n].Warning # results[trace[j2].n].Warning

\* ------------------------------------------------------------------------
\* Reading the reports
\* ------------------------------------------------------------------------
\* the checks of a JSON output, category after category
RECURSIVE JSONChecks(_)
JSONChecks(categories) ==
    IF categories = <<>> THEN <<>>
    ELSE Head(categories).Checks \o JSONChecks(Tail(categories))

\* C21: in the JSON output every result that is not a retry is classified success
\* when its Err is nil, whatever its Warning flag, warning when its Err is not
\* nil and Warning is set, and error otherwise.
C21_JSONStatusByRule ==
    report.method = "ToJSON" =>
        LET checks == JSONChecks(report.Categories)
            finals == TerminalResults(results)
        IN  /\ Len(checks) = Len(finals)
            /\ \A n \in 1..Len(finals) :
                   checks[n].Result =
                       IF finals[n].Err = Nil THEN "success"
                       ELSE IF finals[n].Warning THEN "warning"
                       ELSE "error"

\* the part of C22 about ToJSON: one check per stored result that is not a
\* retry, in the order of emission
JSONSkipsRetries ==
    report.method = "ToJSON" =>
        LET checks == JSONChecks(report.Categories)
            finals == TerminalResults(results)
        IN  /\ Len(checks) = Len(finals)
            /\ \A n \in 1..Len(finals) : checks[n].Description = finals[n].Description

\* C22: ToJSON and Print both produce one entry per stored result that is not a
\* retry, in the order of emission, and no entry for a result that is a retry.
C22_RenderersSkipRetries ==
    /\ JSONSkipsRetries
    /\ report.method = "Print" =>
           LET finals == TerminalResults(results)
           IN  /\ Len(report.Entries) = Len(finals)
               /\ \A n \in 1..Len(finals) :
                      /\ report.Entries[n].Category = finals[n].Category
                      /\ report.Entries[n].Description = finals[n].Description

\* C23: NewHealthChecker returns nil, without a panic, when config is nil; when
\* config is not nil it returns an engine whose shared state is an empty map,
\* also when the categories are nil.
C23_NilConfigGivesNilEngine ==
    /\ config = NilConfig => hc = "nil" /\ pc # "panic"
    /\ config # NilConfig =>
           /\ hc = "engine"
           /\ runs = 0 => state = EmptyData /\ DOMAIN state = {}

\* C24: the context handed to a probe is derived from the context of the
\* checker's category: it is already cancelled when the category's context is
\* cancelled or past its deadline at the start of the attempt, and its timeout
\* runs from the start of that attempt.
C24_ProbeContextFromCategory ==
    \A j \in Events :
        IsProbe(trace[j]) =>
            LET e == trace[j]
                scope == Categories[e.c].Context
            IN  /\ ContextDone(scope, e.at) => ContextDone(e.ctx, e.at)
                /\ e.ctx.hasDeadline
                /\ e.ctx.deadline <= e.at + DefaultTimeOut
                /\ ~scope.hasDeadline => e.ctx.deadline = e.at + DefaultTimeOut

\* the part of C24 about the timeout: every attempt has a timeout of its own,
\* which runs from the start of that attempt
FreshTimeoutPerAttempt ==
    \A j \in Events :
        IsProbe(trace[j]) =>
            /\ trace[j].ctx.hasDeadline
            /\ trace[j].ctx.deadline = trace[j].at + DefaultTimeOut

\* C25: what a probe wrote to the shared state during one RunChecks call is not
\* visible to the probes of a later RunChecks call on the same engine: every key
\* a probe sees was written by a probe before it in the same call.
C25_StateScopedToOneRun ==
    \A j \in Events :
        IsProbe(trace[j]) =>
            \A key \in DOMAIN trace[j].seen :
                \E j2 \in 1..(j - 1) :
                    /\ IsProbe(trace[j2])
                    /\ trace[j2].run = trace[j].run
                    /\ trace[j2].put.key = key

\* C26: when a checker flagged both Warning and Fatal fails terminally, warning
\* is set to true, success is left as it was, and RunChecks returns at once: no
\* later checker is run.
C26_WarningFatalFailure ==
    [][(/\ pc = "attempt"
        /\ Categories[ci].Checkers[ki].Warning
        /\ Categories[ci].Checkers[ki].Fatal
        /\ Len(results') = Len(results) + 1
        /\ ~results'[Len(results')].Retry
        /\ results'[Len(results')].Err # Nil)
       => /\ warning' = TRUE
          /\ success' = success
          /\ pc' = "done"]_vars

\* RunChecks has returned with success true and warning true after the terminal
\* failure of a Warning and Fatal checker, reached after a retry, and a checker
\* after it that could run has not been run
C26_Witness ==
    /\ Returned
    /\ success
    /\ warning
    /\ trace # <<>>
    /\ IsTerminalFailure(trace[Len(trace)])
    /\ CheckerOf(trace[Len(trace)]).Warning
    /\ CheckerOf(trace[Len(trace)]).Fatal
    /\ RunnableAfter(trace[Len(trace)].c, trace[Len(trace)].k)
    /\ \E j \in Events : IsTransient(trace[j])

\* C27: only the terminal failure of a Fatal checker cuts a run short: when
\* RunChecks has returned, a checker with a probe in an enabled category has
\* been invoked unless a Fatal checker before it in the walk failed terminally,
\* and then it has not; a Fatal checker that passes (nil, VerboseSuccess or
\* SkipError) and a checker that is not Fatal and fails stop no later checker.
C27_OnlyFatalFailureTruncates ==
    Returned =>
        \A i \in 1..Len(Categories) : \A k \in 1..Len(Categories[i].Checkers) :
            Categories[i].Enabled /\ Categories[i].Checkers[k].HasCheck =>
                LET cut == \E j \in Events :
                               /\ IsTerminalFailure(trace[j])
                               /\ CheckerOf(trace[j]).Fatal
                               /\ PosBefore(PosOf(trace[j]), <<i, k>>)
                IN  (\E j \in Events : IsProbe(trace[j]) /\ PosOf(trace[j]) = <<i, k>>) <=> ~cut

\* RunChecks has returned after a Fatal checker's probe failed, was retried and
\* returned SkipError, and the probe of the checker after it was invoked
C27_Witness ==
    /\ Returned
    /\ \E j \in Events : \E j2 \in Events :
          /\ IsProbe(trace[j])
          /\ CheckerOf(trace[j]).Fatal
          /\ trace[j].out.type = "SkipError"
          /\ \E j0 \in 1..j : IsTransient(trace[j0]) /\ PosOf(trace[j0]) = PosOf(trace[j])
          /\ IsProbe(trace[j2])
          /\ PosBefore(PosOf(trace[j]), PosOf(trace[j2]))

\* the attempts of every checker are bounded: a result is a retry only when the
\* attempt began before the checker's RetryDeadline, and a checker first
\* attempted D ticks before its RetryDeadline is attempted at most
\* 1 + ceil(D / retryWindow) times, once when D <= 0
AttemptsBounded ==
    /\ \A j \in Events :
          IsTransient(trace[j]) => trace[j].at < CheckerOf(trace[j]).RetryDeadline
    /\ \A p \in PositionsRun :
          Cardinality(ProbesOf(p)) <=
              1 + (IF PeriodOf(p) > 0 THEN (PeriodOf(p) + retryWindow - 1) \div retryWindow
                   ELSE 0)

\* C28: RunChecks terminates when every probe returns, the retry window is
\* positive and the clock advances by at least the window across each sleep:
\* no checker is retried once the clock has reached its RetryDeadline, so each
\* is attempted boundedly often, and a run that has begun eventually returns.
C28_RunChecksTerminates ==
    /\ []AttemptsBounded
    /\ (pc \in {"attempt", "sleep"}) ~> Returned

\* RunChecks has returned after a checker was retried until the clock passed its
\* RetryDeadline, and a checker without RetryDeadline failed once
C28_Witness ==
    /\ Returned
    /\ \E p \in PositionsRun :
          /\ Cardinality(ProbesOf(p)) >= 3
          /\ \E j \in ProbesOf(p) :
                trace[j].at > CheckerOf(trace[j]).RetryDeadline /\ IsFailure(trace[j].out)
    /\ \E p \in PositionsRun :
          /\ Categories[p[1]].Checkers[p[2]].RetryDeadline = ZeroTime
          /\ \E j \in ProbesOf(p) : IsFailure(trace[j].out)

\* C29: the observer is called synchronously: a result has been delivered, and
\* the observer has returned, before the sleep that follows it begins and
\* before any later probe is invoked.
C29_ObserverCalledSynchronously ==
    /\ Len(results) = Cardinality({j \in Events : IsResult(trace[j])})
    /\ \A j \in Events :
          LET delivered == Cardinality({j2 \in 1..(j - 1) : IsResult(trace[j2])})
          IN  /\ IsProbe(trace[j]) => trace[j].held = delivered
              /\ trace[j].ev = "sleep" =>
                    /\ trace[j].held = delivered
                    /\ j > 1
                    /\ IsResult(trace[j - 1])
                    /\ trace[j - 1].n = trace[j].held
                    /\ results[trace[j - 1].n].Retry
              /\ IsResult(trace[j]) => trace[j].n = delivered + 1

\* a retry result was delivered before the sleep, and the terminal result that
\* followed before the probe of the next checker was invoked
C29_Witness ==
    \E j \in Events : \E j2 \in Events :
        /\ trace[j].ev = "sleep"
        /\ trace[j].held = 1
        /\ j2 > j
        /\ IsProbe(trace[j2])
        /\ PosBefore(PosOf(trace[j]), PosOf(trace[j2]))
        /\ trace[j2].held = 2
        /\ IsTerminal(trace[j2 - 1])

\* C30: after the reporter has collected the results of a run through Observer,
\* Successful() and HasWarning() return the pair that Replay computes over the
\* stored results; Successful() returns true after a run in which every check
\* passed.
C30_AccessorsAgreeWithReplay ==
    /\ report.method = "Successful" =>
          /\ report.value = Replayed(results).success
          /\ (\A n \in 1..Len(results) : results[n].Err = Nil) => report.value = TRUE
    /\ report.method = "HasWarning" => report.value = Replayed(results).warning

====
